---- MODULE Spec2Model ----
(***************************************************************************)
(* Model of the Streamlit knowledge-graph demo scripts:                    *)
(*   src/milestone4_code.py            (app "milestone4")                  *)
(*   src/sample6.py lines 1-210        (app "sample6_app1")                *)
(*   src/sample6.py lines 217-400      (app "sample6_app2")                *)
(*   src/semantic_code.py              (app "semantic")                    *)
(* The dependency annotator (spaCy) and the sentence embedder are black    *)
(* boxes: a parsed sentence is a sequence of tokens with text, dependency  *)
(* label, part of speech and head index; a similarity is an integer in     *)
(* units of 1/10000.                                                       *)
(***************************************************************************)
EXTENDS Integers, Sequences, FiniteSets, TLC

VARIABLES
    fpc,        \* position of the function-level specifications
    doc,        \* the annotated sentence handed to extract_relations
    relations,  \* the list extract_relations returned
    rows,       \* the rows (Entity1, Relation, Entity2) handed to a function
    order,      \* link_domains: the order list(set(...)) gave the entities
    score,      \* link_domains: cosine similarity of candidates i < j, in 1/10000
    linked,     \* link_domains: the list it returned
    query,      \* the text of the search box
    all_nodes,  \* semantic search: list(set(Entity1 + Entity2))
    cosine_scores,  \* semantic search: similarity of each node to the query, in 1/10000
    results,    \* semantic search: the (node, score) list that is displayed
    message,    \* what the search or question section reported
    terms,      \* query answering: q_ents + q_tokens
    found,      \* query answering: the rows that matched
    answers,    \* query answering: the lines written under "Possible Answers"
    G,          \* the networkx DiGraph last assembled
    app,        \* the script this Streamlit process runs
    pc,         \* position of the script run ("idle": waiting for a widget event)
    runs,       \* script executions started in this process
    cached,     \* st.cache_resource holds the result of load_models()
    parserLoads,    \* number of spacy.load calls in this process
    embedderLoads,  \* number of SentenceTransformer(...) constructions
    uploaded_file,  \* the value of the file_uploader widget in this run
    triples,    \* the module-level list triples
    triples_df, \* the data frame triples_df (unbound until assigned)
    csv,        \* the file triples_output.csv
    events,     \* what this run has done and shown so far, in order
    exc         \* the exception that ended this run, if any

qaVars == <<query, all_nodes, cosine_scores, results, message, terms, found, answers>>

fnVars == <<fpc, doc, relations, rows, order, score, linked, query, all_nodes,
            cosine_scores, results, message, terms, found, answers>>

pipeVars == <<app, pc, runs, cached, parserLoads, embedderLoads, uploaded_file,
              triples, triples_df, csv, events, exc>>

vars == <<fpc, doc, relations, rows, order, score, linked, query, all_nodes,
          cosine_scores, results, message, terms, found, answers, G, app, pc, runs,
          cached, parserLoads, embedderLoads, uploaded_file, triples,
          triples_df, csv, events, exc>>

(***************************************************************************)
(* Bounds                                                                  *)
(***************************************************************************)
MaxTokens == 3

MaxTriples == 3

MaxLinkRows == 3

MaxRows == 2

MaxRuns == 2

MaxNodes == 6

MaxAnswerRows == 3

(***************************************************************************)
(* Annotated sentences                                                     *)
(***************************************************************************)
\* the dependency labels the extractor tests for, and one it ignores
SubjectDeps == {"nsubj", "nsubjpass"}

ObjectDeps == {"dobj", "attr", "dative", "oprd"}

OtherDeps == {"det"}

\* surface text of the token at each position of a generated sentence
Words == <<"Cat", "chased", "mouse", "cat", "Mouse", "dog">>

\* "She gave him books": two right dependents carry an object label
GaveDoc ==
    << [text |-> "She",   dep |-> "nsubj",  pos |-> "PRON", head |-> 2],
       [text |-> "gave",  dep |-> "ROOT",   pos |-> "VERB", head |-> 2],
       [text |-> "him",   dep |-> "dative", pos |-> "PRON", head |-> 2],
       [text |-> "books", dep |-> "dobj",   pos |-> "NOUN", head |-> 2] >>

\* "Cats chase mice. Dogs chase cats." handed over as one text: two roots
TwoRootDoc ==
    << [text |-> "Cats",  dep |-> "nsubj", pos |-> "NOUN", head |-> 2],
       [text |-> "chase", dep |-> "ROOT",  pos |-> "VERB", head |-> 2],
       [text |-> "mice",  dep |-> "dobj",  pos |-> "NOUN", head |-> 2],
       [text |-> "Dogs",  dep |-> "nsubj", pos |-> "NOUN", head |-> 5],
       [text |-> "chase", dep |-> "ROOT",  pos |-> "VERB", head |-> 5],
       [text |-> "cats",  dep |-> "dobj",  pos |-> "NOUN", head |-> 5] >>

\* "The cat sleeps": a verb root with a subject and no object
SleepsDoc ==
    << [text |-> "The",    dep |-> "det",   pos |-> "DET",  head |-> 2],
       [text |-> "cat",    dep |-> "nsubj", pos |-> "NOUN", head |-> 3],
       [text |-> "sleeps", dep |-> "ROOT",  pos |-> "VERB", head |-> 3] >>

\* "The cat chased the mouse" as en_core_web_sm parses it
CatDoc ==
    << [text |-> "The",    dep |-> "det",   pos |-> "DET",  head |-> 2],
       [text |-> "cat",    dep |-> "nsubj", pos |-> "NOUN", head |-> 3],
       [text |-> "chased", dep |-> "ROOT",  pos |-> "VERB", head |-> 3],
       [text |-> "the",    dep |-> "det",   pos |-> "DET",  head |-> 5],
       [text |-> "mouse",  dep |-> "dobj",  pos |-> "NOUN", head |-> 3] >>

\* a token of a generated sentence: a root (its own head) that is a verb or
\* an auxiliary, or a dependent of another token
Shapes(n) ==
    {<<"ROOT", "VERB", 0>>, <<"ROOT", "AUX", 0>>}
        \cup { <<d, IF d = "det" THEN "DET" ELSE "NOUN", h>> :
                  d \in SubjectDeps \cup ObjectDeps \cup OtherDeps, h \in 1..n }

MkToken(i, s) ==
    [text |-> Words[i], dep |-> s[1], pos |-> s[2],
     head |-> IF s[1] = "ROOT" THEN i ELSE s[3]]

RECURSIVE Ancestor(_, _, _)
\* the token reached from i by following k head links
Ancestor(d, i, k) == IF k = 0 THEN i ELSE Ancestor(d, d[i].head, k - 1)

\* a parse is a forest: no dependent is its own head and every head chain
\* ends in a root
WellFormed(d) ==
    \A i \in 1..Len(d) :
        /\ (d[i].dep # "ROOT" => d[i].head # i)
        /\ d[Ancestor(d, i, Len(d))].dep = "ROOT"

\* the sentences of at most MaxTokens tokens the annotator can produce
IsGenDoc(d) ==
    \E n \in 1..MaxTokens :
        \E f \in [1..n -> Shapes(n)] :
            /\ d = [i \in 1..n |-> MkToken(i, f[i])]
            /\ WellFormed(d)

(***************************************************************************)
(* extract_relations                                                       *)
(***************************************************************************)
RECURSIVE DependentTexts(_, _, _, _, _)
\* [w.text for w in <children of token i among positions lo..hi> if w.dep_ in deps]
DependentTexts(d, i, lo, hi, deps) ==
    IF lo > hi THEN <<>>
    ELSE (IF d[lo].head = i /\ lo # i /\ d[lo].dep \in deps
             THEN <<d[lo].text>> ELSE <<>>)
         \o DependentTexts(d, i, lo + 1, hi, deps)

\* token.lefts filtered by the subject labels
subject(d, i) == DependentTexts(d, i, 1, i - 1, SubjectDeps)

\* token.rights filtered by the object labels
obj(d, i) == DependentTexts(d, i, i + 1, Len(d), ObjectDeps)

RootVerbNoObjCheck(d, i) ==
    IF d[i].dep = "ROOT" /\ d[i].pos = "VERB" /\ subject(d, i) # <<>>
    THEN << <<subject(d, i)[1], d[i].text,
              IF obj(d, i) # <<>> THEN obj(d, i)[1] ELSE "">> >>
    ELSE <<>>

RootVerbLastMatch(d, i) ==
    IF /\ d[i].dep = "ROOT" /\ d[i].pos = "VERB"
       /\ subject(d, i) # <<>> /\ obj(d, i) # <<>>
    THEN << <<subject(d, i)[Len(subject(d, i))], d[i].text,
              obj(d, i)[Len(obj(d, i))]>> >>
    ELSE <<>>

\* the body of the token loop: what one token appends to relations
TokenRelations(d, i) ==
    IF /\ d[i].dep = "ROOT" /\ d[i].pos = "VERB"
       /\ subject(d, i) # <<>> /\ obj(d, i) # <<>>
    THEN << <<subject(d, i)[1], d[i].text, obj(d, i)[1]>> >>
    ELSE <<>>

RECURSIVE RelationsFrom(_, _)
RelationsFrom(d, i) ==
    IF i > Len(d) THEN <<>>
    ELSE TokenRelations(d, i) \o RelationsFrom(d, i + 1)

extract_relations(d) == RelationsFrom(d, 1)

(***************************************************************************)
(* The graph: nx.DiGraph keeps a node set and, per ordered pair of nodes,  *)
(* ONE attribute dictionary                                                *)
(***************************************************************************)
EmptyGraph == [nodes |-> {}, adj |-> <<>>]

\* G.add_node(n)
add_node(g, n) == [g EXCEPT !.nodes = @ \cup {n}]

\* G.add_edge(u, v, **attrs): adds both nodes, then updates the attribute
\* dictionary of the pair (u, v)
add_edge(g, u, v, attrs) ==
    [nodes |-> g.nodes \cup {u, v},
     adj   |-> [e \in DOMAIN g.adj \cup {<<u, v>>} |->
                   IF e = <<u, v>> THEN attrs ELSE g.adj[e]]]

\* normalize(text) of milestone4_code.py on the entity vocabulary
normalize(t) == IF t = "Cat" THEN "cat" ELSE IF t = "Mouse" THEN "mouse" ELSE t

RowIntoGraphNormalized(g, r) ==
    add_edge(add_node(add_node(g, normalize(r[1])), normalize(r[3])),
             normalize(r[1]), normalize(r[3]), [label |-> r[2]])

\* the body of the loop over triples_df.iterrows()
RowIntoGraph(g, r) ==
    add_edge(add_node(add_node(g, r[1]), r[3]), r[1], r[3], [label |-> r[2]])

RECURSIVE DiGraphFrom(_, _, _)
DiGraphFrom(g, rs, k) ==
    IF k > Len(rs) THEN g ELSE DiGraphFrom(RowIntoGraph(g, rs[k]), rs, k + 1)

\* the graph visualize_knowledge_graph assembles from triples_df
AssembleGraph(rs) == DiGraphFrom(EmptyGraph, rs, 1)

RECURSIVE EdgelistFrom(_, _, _)
EdgelistFrom(g, rs, k) ==
    IF k > Len(rs) THEN g
    ELSE EdgelistFrom(add_edge(g, rs[k][1], rs[k][3], [Relation |-> rs[k][2]]),
                      rs, k + 1)

\* nx.from_pandas_edgelist(triples_df, "Entity1", "Entity2", edge_attr=True,
\*                         create_using=nx.DiGraph())
from_pandas_edgelist(rs) == EdgelistFrom(EmptyGraph, rs, 1)

number_of_edges(g) == Cardinality(DOMAIN g.adj)

(***************************************************************************)
(* Inputs of the function-level specifications                             *)
(***************************************************************************)
Entities == {"cat", "Cat", "mouse"}

Predicates == {"chased", "ate"}

TripleSet == Entities \X Predicates \X Entities

IsTripleList(rs) ==
    \E n \in 0..MaxTriples : \E f \in [1..n -> TripleSet] : rs = f

(***************************************************************************)
(* link_domains                                                            *)
(***************************************************************************)
\* similarities the embedder can give a pair, in units of 1/10000; none is
\* a rounding tie
Scores == {5996, 6004, 7504, 9000}

\* round(score, 3): a similarity in 1/10000 to the nearest 1/1000
Round3(x) == (x + 5) \div 10

\* threshold=0.6 of milestone4_code.py, in 1/1000
ThresholdM4 == 600

\* threshold=0.75 of sample6.py, in 1/10000
ThresholdS6 == 7500

\* the slice [:10] of milestone4_code.py
TopLinks == 10

\* f"{row['Entity1']} {row['Relation']} {row['Entity2']}"
Sentence(r) == r[1] \o " " \o r[2] \o " " \o r[3]

RECURSIVE DropDuplicates(_, _, _)
\* Series.drop_duplicates().tolist(): first occurrences, in order
DropDuplicates(xs, k, acc) ==
    IF k > Len(xs) THEN acc
    ELSE DropDuplicates(xs, k + 1,
            IF \E m \in 1..Len(acc) : acc[m] = xs[k] THEN acc
            ELSE Append(acc, xs[k]))

\* the candidate sentences of milestone4_code.py
Sentences(rs) == DropDuplicates([k \in 1..Len(rs) |-> Sentence(rs[k])], 1, <<>>)

\* set(triples_df["Entity1"].tolist() + triples_df["Entity2"].tolist())
EntitySet(rs) ==
    {rs[k][1] : k \in 1..Len(rs)} \cup {rs[k][3] : k \in 1..Len(rs)}

\* the index pairs i < j in the order the nested loops visit them
RECURSIVE PairsFrom(_, _, _)
PairsFrom(n, i, j) ==
    IF i >= n THEN <<>>
    ELSE IF j > n THEN PairsFrom(n, i + 1, i + 2)
    ELSE <<<<i, j>>>> \o PairsFrom(n, i, j + 1)

PairSeq(n) == PairsFrom(n, 1, 2)

RECURSIVE InsertDesc(_, _)
\* insert x behind every element whose score is at least x's
InsertDesc(sorted, x) ==
    IF sorted = <<>> THEN <<x>>
    ELSE IF Head(sorted)[3] >= x[3] THEN <<Head(sorted)>> \o InsertDesc(Tail(sorted), x)
    ELSE <<x>> \o sorted

RECURSIVE SortedDesc(_, _, _)
\* sorted(linked, key=lambda x: x[2], reverse=True): stable, descending
SortedDesc(xs, k, acc) ==
    IF k > Len(xs) THEN acc ELSE SortedDesc(xs, k + 1, InsertDesc(acc, xs[k]))

Take(xs, n) == IF Len(xs) <= n THEN xs ELSE SubSeq(xs, 1, n)

\* link_domains of milestone4_code.py on the candidate sentences cs
link_domains_m4(cs, sc) ==
    IF Len(cs) < 2 THEN <<>>
    ELSE LET ps     == PairSeq(Len(cs))
             all    == [k \in 1..Len(ps) |->
                          <<cs[ps[k][1]], cs[ps[k][2]], Round3(sc[ps[k]])>>]
             top    == Take(SortedDesc(all, 1, <<>>), TopLinks)
         IN  SelectSeq(top, LAMBDA l : l[3] > ThresholdM4)

\* link_domains of sample6.py on the entities in the order es
link_domains_s6(es, sc) ==
    IF Len(es) < 2 THEN <<>>
    ELSE LET ps   == PairSeq(Len(es))
             kept == SelectSeq(ps, LAMBDA q : sc[q] > ThresholdS6)
         IN  [k \in 1..Len(kept) |->
                <<es[kept[k][1]], es[kept[k][2]], Round3(sc[kept[k]])>>]

(***************************************************************************)
(* Semantic search                                                         *)
(***************************************************************************)
\* similarities of a node to the query, in 1/10000
SearchScores == {2996, 3004, 9000}

\* the slice [:5] of milestone4_code.py, top_k = 5 of sample6.py
TopK == 5

\* threshold = 0.30 of the second app of sample6.py, in 1/10000
SearchThreshold == 3000

\* the texts the search box is given
Queries == {"", " ", "cat"}

\* query.strip()
strip(q) == IF q = " " THEN "" ELSE q

\* zip(all_nodes, cosine_scores)
zip(ns, sc) == [k \in 1..Len(ns) |-> <<ns[k], sc[k]>>]

RECURSIVE InsertByScore(_, _)
InsertByScore(sorted, x) ==
    IF sorted = <<>> THEN <<x>>
    ELSE IF Head(sorted)[2] >= x[2]
         THEN <<Head(sorted)>> \o InsertByScore(Tail(sorted), x)
         ELSE <<x>> \o sorted

RECURSIVE SortedAscending(_, _, _)
SortedAscending(xs, k, acc) ==
    IF k > Len(xs) THEN acc
    ELSE SortedAscending(xs, k + 1,
            LET lo == SelectSeq(acc, LAMBDA y : y[2] <= xs[k][2])
                hi == SelectSeq(acc, LAMBDA y : y[2] > xs[k][2])
            IN  lo \o <<xs[k]>> \o hi)

RECURSIVE SortedByScore(_, _, _)
\* sorted(zip(...), key=lambda x: x[1], reverse=True): stable, descending
SortedByScore(xs, k, acc) ==
    IF k > Len(xs) THEN acc ELSE SortedByScore(xs, k + 1, InsertByScore(acc, xs[k]))

\* milestone4_code.py 148-152: the five best nodes whatever their score
top_matches(ns, sc) == Take(SortedByScore(zip(ns, sc), 1, <<>>), TopK)

\* sample6.py 373-381: every node above the threshold, best first
filtered(ns, sc) ==
    SelectSeq(SortedByScore(zip(ns, sc), 1, <<>>), LAMBDA r : r[2] > SearchThreshold)

(***************************************************************************)
(* Query answering                                                         *)
(***************************************************************************)
\* the questions typed into the question box and what nlp gives for each:
\* the token texts with their part of speech, and the named-entity texts
Questions == {"", "Who chased the mouse?", "What did the CAT eat?", "Is Paris home?"}

question_doc(q) ==
    CASE q = "Who chased the mouse?" ->
            [tokens |-> << [text |-> "Who", pos |-> "PRON"],
                           [text |-> "chased", pos |-> "VERB"],
                           [text |-> "the", pos |-> "DET"],
                           [text |-> "mouse", pos |-> "NOUN"],
                           [text |-> "?", pos |-> "PUNCT"] >>,
             ents |-> <<>>]
      [] q = "What did the CAT eat?" ->
            [tokens |-> << [text |-> "What", pos |-> "PRON"],
                           [text |-> "did", pos |-> "AUX"],
                           [text |-> "the", pos |-> "DET"],
                           [text |-> "CAT", pos |-> "PROPN"],
                           [text |-> "eat", pos |-> "VERB"],
                           [text |-> "?", pos |-> "PUNCT"] >>,
             ents |-> <<>>]
      [] q = "Is Paris home?" ->
            [tokens |-> << [text |-> "Is", pos |-> "AUX"],
                           [text |-> "Paris", pos |-> "PROPN"],
                           [text |-> "home", pos |-> "NOUN"],
                           [text |-> "?", pos |-> "PUNCT"] >>,
             ents |-> <<"Paris">>]

\* the characters of the strings that are compared
chars(t) ==
    CASE t = "cat" -> <<"c", "a", "t">>
      [] t = "Cats" -> <<"C", "a", "t", "s">>
      [] t = "CAT" -> <<"C", "A", "T">>
      [] t = "mouse" -> <<"m", "o", "u", "s", "e">>
      [] t = "Paris" -> <<"P", "a", "r", "i", "s">>
      [] t = "home" -> <<"h", "o", "m", "e">>

\* str.lower(), character by character
lower(cs) ==
    [k \in 1..Len(cs) |->
        CASE cs[k] = "C" -> "c" [] cs[k] = "A" -> "a" [] cs[k] = "T" -> "t"
          [] cs[k] = "P" -> "p" [] OTHER -> cs[k]]

\* a in b for two strings
contains(a, b) ==
    \E off \in 0..(Len(b) - Len(a)) : SubSeq(b, off + 1, off + Len(a)) = a

\* q_ents + q_tokens
question_terms(q) ==
    question_doc(q).ents
        \o LET nouns == SelectSeq(question_doc(q).tokens,
                                  LAMBDA t : t.pos \in {"NOUN", "PROPN"})
           IN  [k \in 1..Len(nouns) |-> nouns[k].text]

\* any(ent.lower() in row["Entity1"].lower() or ent.lower() in row["Entity2"].lower() ...)
RowMatches(r, ts) ==
    \E k \in 1..Len(ts) :
        \/ contains(lower(chars(ts[k])), lower(chars(r[1])))
        \/ contains(lower(chars(ts[k])), lower(chars(r[3])))

\* the loop over triples_df.iterrows() that fills found
found_rows(rs, ts) == SelectSeq(rs, LAMBDA r : RowMatches(r, ts))

\* milestone4_code.py 178-183: every sentence is written once
possible_answers_m4(fs) ==
    DropDuplicates([k \in 1..Len(fs) |-> Sentence(fs[k])], 1, <<>>)

\* sample6.py 191-192: st.dataframe(pd.DataFrame(found)) shows every found
\* row; a row is represented by its sentence
possible_answers_s6(fs) == [k \in 1..Len(fs) |-> Sentence(fs[k])]

(***************************************************************************)
(* The script run                                                          *)
(***************************************************************************)
Apps == {"milestone4", "sample6_app1", "sample6_app2", "semantic"}

\* the scripts that wrap model loading in st.cache_resource
CachedApps == {"milestone4", "sample6_app1", "sample6_app2"}

\* the scripts with search, question and domain-link sections in the else branch
SearchApps == {"milestone4", "sample6_app1"}

\* the sentences of the uploaded tables and the parse nlp gives each
Corpus == {"The cat chased the mouse", "She gave him books", "The cat sleeps",
           "Cats chase mice. Dogs chase cats."}

nlp(text) ==
    CASE text = "The cat chased the mouse" -> CatDoc
      [] text = "She gave him books" -> GaveDoc
      [] text = "The cat sleeps" -> SleepsDoc
      [] text = "Cats chase mice. Dogs chase cats." -> TwoRootDoc

\* a missing cell of the table
NaN == "NaN"

NoFile == [present |-> FALSE, column |-> "", cells |-> <<>>]

\* a table whose only column is not named "sentence"
BadFile == [present |-> TRUE, column |-> "Sentence",
            cells |-> <<"The cat chased the mouse">>]

Files ==
    {NoFile, BadFile}
        \cup { [present |-> TRUE, column |-> "sentence", cells |-> c] :
                 c \in UNION { [1..n -> Corpus \cup {NaN}] : n \in 0..MaxRows } }

Unbound == [defined |-> FALSE, columns |-> <<>>, rows |-> <<>>]

NoCsv == [written |-> FALSE, fields |-> <<>>, rows |-> <<>>]

\* df["sentence"].dropna()
dropna(cells) == SelectSeq(cells, LAMBDA c : c # NaN)

RECURSIVE ExtendAllDistinct(_, _, _)
ExtendAllDistinct(acc, texts, k) ==
    IF k > Len(texts) THEN acc
    ELSE ExtendAllDistinct(
            DropDuplicates(acc \o extract_relations(nlp(texts[k])), 1, <<>>),
            texts, k + 1)

RECURSIVE ExtendAll(_, _, _)
\* for text in ...: triples.extend(extract_relations(text))
ExtendAll(acc, texts, k) ==
    IF k > Len(texts) THEN acc
    ELSE ExtendAll(acc \o extract_relations(nlp(texts[k])), texts, k + 1)

\* pd.DataFrame(triples, columns=["Entity1", "Relation", "Entity2"])
DataFrame(ts) ==
    [defined |-> TRUE, columns |-> <<"Entity1", "Relation", "Entity2">>, rows |-> ts]

\* triples_df.to_csv("triples_output.csv", index=False)
to_csv(df) == [written |-> TRUE, fields |-> df.columns, rows |-> df.rows]

\* triples_df["sentence"] = triples_df.apply(...): the column is added in place
WithSentenceColumn(df) ==
    IF \E k \in 1..Len(df.columns) : df.columns[k] = "sentence"
    THEN [df EXCEPT !.rows = [k \in 1..Len(@) |->
                                 <<@[k][1], @[k][2], @[k][3], Sentence(@[k])>>]]
    ELSE [df EXCEPT !.columns = Append(@, "sentence"),
                    !.rows = [k \in 1..Len(@) |-> Append(@[k], Sentence(@[k]))]]

Show(es) == events' = events \o es

\* an internal error of the graph library: none, one raised by
\* nx.degree_centrality, or one raised by the community detection
Failures == {"none", "centrality", "community"}

\* the failure strikes: the libraries are called on a graph that has nodes
Raises(g, failure) == g.nodes # {} /\ failure # "none"

\* milestone4_code.py 92-99 and sample6.py 89-97 catch what the community
\* detection raises; nx.degree_centrality is called outside the try
RaisesUncaught(g, failure) == g.nodes # {} /\ failure = "centrality"

\* milestone4_code.py 84-101, sample6.py 78-99: what the analytics inside
\* visualize_knowledge_graph show
AnalyticsShownGreedy(g, failure) ==
    IF g.nodes = {} THEN <<"warning:empty">>
    ELSE IF failure = "centrality" THEN <<"raise:centrality">>
    ELSE IF failure = "community"
    THEN <<"degree_centrality", "raise:community", "warning:community_skipped">>
    ELSE <<"degree_centrality", "communities">>

\* sample6.py 341-362: centrality is computed before the test of len(G.nodes),
\* and best_partition is called with no try around it
AnalyticsShownLouvain(g, failure) ==
    IF g.nodes = {} THEN <<"degree_centrality", "betweenness_centrality", "warning:empty">>
    ELSE IF failure = "centrality" THEN <<"raise:centrality">>
    ELSE IF failure = "community"
    THEN <<"degree_centrality", "betweenness_centrality", "raise:community">>
    ELSE <<"degree_centrality", "betweenness_centrality", "communities">>

\* the search and question sections while they are not examined
NoQuery ==
    /\ query = ""
    /\ all_nodes = <<>>
    /\ cosine_scores = <<>>
    /\ results = <<>>
    /\ message = ""
    /\ terms = <<>>
    /\ found = <<>>
    /\ answers = <<>>

InitPipeline ==
    /\ app \in Apps
    /\ pc = "idle"
    /\ runs = 0
    /\ cached = FALSE
    /\ parserLoads = 0
    /\ embedderLoads = 0
    /\ uploaded_file = NoFile
    /\ triples = <<>>
    /\ triples_df = Unbound
    /\ csv = NoCsv
    /\ events = <<>>
    /\ exc = "none"
    /\ G = EmptyGraph
    /\ fpc = "unused"
    /\ doc = <<>>
    /\ relations = <<>>
    /\ rows = <<>>
    /\ order = <<>>
    /\ score = <<>>
    /\ linked = <<>>
    /\ NoQuery

\* a widget event makes Streamlit execute the script from its first line in a
\* fresh module namespace; triples = [] (milestone4_code.py 121)
\* the order of the sections of the script, from the top of a run to its end:
\* the section that follows section p in app a
followingLinksFirst(a, p) ==
    CASE p = "idle" -> "load"
      [] p = "load" -> "upload"
      [] p = "upload" -> "extract"
      [] p = "extract" -> "save"
      [] p = "save" -> IF a \in SearchApps THEN "search"
                       ELSE IF a = "sample6_app2" THEN "links" ELSE "visualize"
      [] p = "search" -> "answer"
      [] p = "answer" -> "link"
      [] p = "link" -> "visualize"
      [] p = "links" -> "analytics"
      [] p = "analytics" -> "visualize"
      [] p = "visualize" -> "idle"

following(a, p) ==
    CASE p = "idle" -> "load"
      [] p = "load" -> "upload"
      [] p = "upload" -> "extract"
      [] p = "extract" -> "save"
      [] p = "save" -> IF a \in SearchApps THEN "search"
                       ELSE IF a = "sample6_app2" THEN "analytics" ELSE "visualize"
      [] p = "search" -> "answer"
      [] p = "answer" -> "link"
      [] p = "link" -> "visualize"
      [] p = "analytics" -> "links"
      [] p = "links" -> "visualize"
      [] p = "visualize" -> "idle"

StartRun ==
    /\ pc = "idle"
    /\ runs < MaxRuns
    /\ runs' = runs + 1
    /\ uploaded_file' \in Files
    /\ triples' = <<>>
    /\ triples_df' = Unbound
    /\ events' = <<>>
    /\ exc' = "none"
    /\ G' = EmptyGraph
    /\ pc' = following(app, pc)
    /\ UNCHANGED <<app, cached, parserLoads, embedderLoads, csv>>
    /\ UNCHANGED fnVars

\* nlp, model = load_models() under st.cache_resource; semantic_code.py calls
\* spacy.load at module level and has no embedder
LoadModels ==
    /\ pc = "load"
    /\ IF app \in CachedApps
       THEN IF cached
            THEN UNCHANGED <<cached, parserLoads, embedderLoads>>
            ELSE /\ parserLoads' = parserLoads + 1
                 /\ embedderLoads' = embedderLoads + 1
                 /\ cached' = TRUE
       ELSE /\ parserLoads' = parserLoads + 1
            /\ UNCHANGED <<cached, embedderLoads>>
    /\ pc' = following(app, pc)
    /\ UNCHANGED <<app, runs, uploaded_file, triples, triples_df, csv, events, exc, G>>
    /\ UNCHANGED fnVars

\* if uploaded_file: ... if "sentence" not in df.columns: st.error(...)
ReadUpload ==
    /\ pc = "upload"
    /\ IF ~uploaded_file.present
       THEN /\ pc' = "idle"
            /\ UNCHANGED events
       ELSE IF uploaded_file.column # "sentence"
       THEN /\ Show(<<"st.error">>)
            /\ pc' = IF app = "semantic" THEN "visualize" ELSE "idle"
       ELSE /\ Show(<<"st.info">>)
            /\ pc' = following(app, pc)
    /\ UNCHANGED <<app, runs, cached, parserLoads, embedderLoads, uploaded_file,
                   triples, triples_df, csv, exc, G>>
    /\ UNCHANGED fnVars

\* the loop over df["sentence"].dropna()
ExtractTriples ==
    /\ pc = "extract"
    /\ triples' = ExtendAll(triples, dropna(uploaded_file.cells), 1)
    /\ Show(<<"extract">>)
    /\ pc' = following(app, pc)
    /\ UNCHANGED <<app, runs, cached, parserLoads, embedderLoads, uploaded_file,
                   triples_df, csv, exc, G>>
    /\ UNCHANGED fnVars

\* triples_df = pd.DataFrame(...); triples_df.to_csv(...); st.dataframe(...)
SaveTriples ==
    /\ pc = "save"
    /\ triples_df' = DataFrame(triples)
    /\ csv' = to_csv(DataFrame(triples))
    /\ Show(<<"to_csv", "st.dataframe">>)
    /\ pc' = following(app, pc)
    /\ UNCHANGED <<app, runs, cached, parserLoads, embedderLoads, uploaded_file,
                   triples, exc, G>>
    /\ UNCHANGED fnVars

\* if st.button("Search") and query: the nodes and the query are embedded
SemanticSearch ==
    /\ pc = "search"
    /\ \E pressed \in BOOLEAN, typed \in {"", "cat"} :
          IF pressed /\ typed # "" THEN Show(<<"encode", "top_matches">>)
          ELSE UNCHANGED events
    /\ pc' = following(app, pc)
    /\ UNCHANGED <<app, runs, cached, parserLoads, embedderLoads, uploaded_file,
                   triples, triples_df, csv, exc, G>>
    /\ UNCHANGED fnVars

\* if st.button("Get Answer") and question: substring match over triples_df
QueryAnswering ==
    /\ pc = "answer"
    /\ \E pressed \in BOOLEAN, question \in {"", "Who chased the mouse?"} :
          IF pressed /\ question # "" THEN Show(<<"answer">>)
          ELSE UNCHANGED events
    /\ pc' = following(app, pc)
    /\ UNCHANGED <<app, runs, cached, parserLoads, embedderLoads, uploaded_file,
                   triples, triples_df, csv, exc, G>>
    /\ UNCHANGED fnVars

\* domain_links = link_domains(triples_df): milestone4_code.py first adds the
\* column "sentence" to triples_df; with two candidates or more they are embedded
DomainLinking ==
    /\ pc = "link"
    /\ IF app = "milestone4"
       THEN /\ triples_df' = WithSentenceColumn(triples_df)
            /\ Show(IF Len(Sentences(triples_df.rows)) < 2
                    THEN <<"link_domains">> ELSE <<"encode", "link_domains">>)
       ELSE /\ UNCHANGED triples_df
            /\ Show(IF Cardinality(EntitySet(triples_df.rows)) < 2
                    THEN <<"link_domains">> ELSE <<"encode", "link_domains">>)
    /\ pc' = following(app, pc)
    /\ UNCHANGED <<app, runs, cached, parserLoads, embedderLoads, uploaded_file,
                   triples, csv, exc, G>>
    /\ UNCHANGED fnVars

\* sample6.py 337-362: the graph is built and both centralities are computed
\* before the test len(G.nodes) > 0 that guards community detection
Analytics ==
    /\ pc = "analytics"
    /\ G' = from_pandas_edgelist(triples_df.rows)
    /\ \E failure \in Failures :
          /\ Show(AnalyticsShownLouvain(G', failure))
          /\ IF Raises(G', failure)
             THEN exc' = "Exception" /\ pc' = "idle"
             ELSE exc' = exc /\ pc' = following(app, pc)
    /\ UNCHANGED <<app, runs, cached, parserLoads, embedderLoads, uploaded_file,
                   triples, triples_df, csv>>
    /\ UNCHANGED fnVars

\* sample6.py 371-394: if st.button("Find Semantic Links"): nodes above the
\* threshold are listed and the graph is drawn with them highlighted
FindSemanticLinks ==
    /\ pc = "links"
    /\ \E pressed \in BOOLEAN, typed \in {"", "cat"}, hit \in BOOLEAN :
          IF ~pressed THEN UNCHANGED <<events, G>>
          ELSE IF typed = "" THEN Show(<<"st.info">>) /\ UNCHANGED G
          ELSE IF hit /\ triples_df.rows # <<>>
          THEN /\ G' = AssembleGraph(triples_df.rows)
               /\ Show(<<"encode", "linked_nodes", "render">>)
          ELSE Show(<<"encode", "warning:no_links">>) /\ UNCHANGED G
    /\ pc' = following(app, pc)
    /\ UNCHANGED <<app, runs, cached, parserLoads, embedderLoads, uploaded_file,
                   triples, triples_df, csv, exc>>
    /\ UNCHANGED fnVars

\* visualize_knowledge_graph(triples_df, ...): the argument is evaluated first
\* (NameError when triples_df was never assigned); milestone4_code.py and the
\* first app of sample6.py run the analytics inside it
Visualize ==
    /\ pc = "visualize"
    /\ IF ~triples_df.defined
       THEN /\ exc' = "NameError" /\ UNCHANGED <<G, events>>
       ELSE /\ G' = AssembleGraph(triples_df.rows)
            /\ \E failure \in Failures :
                  IF app \in SearchApps
                  THEN /\ Show(AnalyticsShownGreedy(G', failure)
                               \o (IF RaisesUncaught(G', failure) THEN <<>> ELSE <<"render">>))
                       /\ exc' = IF RaisesUncaught(G', failure) THEN "Exception" ELSE exc
                  ELSE Show(<<"render">>) /\ UNCHANGED exc
    /\ pc' = following(app, pc)
    /\ UNCHANGED <<app, runs, cached, parserLoads, embedderLoads, uploaded_file,
                   triples, triples_df, csv>>
    /\ UNCHANGED fnVars

Next ==
    \/ StartRun
    \/ LoadModels
    \/ ReadUpload
    \/ ExtractTriples
    \/ SaveTriples
    \/ SemanticSearch
    \/ QueryAnswering
    \/ DomainLinking
    \/ Analytics
    \/ FindSemanticLinks
    \/ Visualize

Spec == InitPipeline /\ [][Next]_vars

\* the state of the script run while a function is examined on its own
NoRun ==
    /\ app = "milestone4"
    /\ pc = "unused"
    /\ runs = 0
    /\ cached = FALSE
    /\ parserLoads = 0
    /\ embedderLoads = 0
    /\ uploaded_file = NoFile
    /\ triples = <<>>
    /\ triples_df = Unbound
    /\ csv = NoCsv
    /\ events = <<>>
    /\ exc = "none"

(***************************************************************************)
(* Specification of extract_relations on its own                           *)
(***************************************************************************)
InitExtract ==
    /\ fpc = "start"
    /\ \/ IsGenDoc(doc)
       \/ doc \in {CatDoc, GaveDoc, TwoRootDoc}
    /\ relations = <<>>
    /\ rows = <<>>
    /\ order = <<>>
    /\ score = <<>>
    /\ linked = <<>>
    /\ G = EmptyGraph
    /\ NoQuery
    /\ NoRun

ExtractRelations ==
    /\ fpc = "start"
    /\ relations' = extract_relations(doc)
    /\ fpc' = "done"
    /\ UNCHANGED <<doc, rows, order, score, linked, G>>
    /\ UNCHANGED qaVars
    /\ UNCHANGED pipeVars

NextExtract == ExtractRelations

SpecExtract == InitExtract /\ [][NextExtract]_vars

(***************************************************************************)
(* Specification of the graph assembly on its own                          *)
(***************************************************************************)
InitGraph ==
    /\ fpc = "start"
    /\ doc = <<>>
    /\ relations = <<>>
    /\ IsTripleList(rows)
    /\ order = <<>>
    /\ score = <<>>
    /\ linked = <<>>
    /\ G = EmptyGraph
    /\ NoQuery
    /\ NoRun

\* milestone4_code.py 78-82, sample6.py 66-75 and 273-280, semantic_code.py 30-39
AssembleDiGraph ==
    /\ fpc = "start"
    /\ G' = AssembleGraph(rows)
    /\ fpc' = "digraph"
    /\ UNCHANGED <<doc, relations, rows, order, score, linked>>
    /\ UNCHANGED qaVars
    /\ UNCHANGED pipeVars

\* sample6.py 338
AssembleFromEdgelist ==
    /\ fpc = "start"
    /\ G' = from_pandas_edgelist(rows)
    /\ fpc' = "edgelist"
    /\ UNCHANGED <<doc, relations, rows, order, score, linked>>
    /\ UNCHANGED qaVars
    /\ UNCHANGED pipeVars

NextGraph == AssembleDiGraph \/ AssembleFromEdgelist

SpecGraph == InitGraph /\ [][NextGraph]_vars

(***************************************************************************)
(* Specification of link_domains on its own                                *)
(***************************************************************************)
LinkTripleSet == Entities \X {"chased"} \X Entities

InitLink ==
    /\ fpc = "start"
    /\ doc = <<>>
    /\ relations = <<>>
    /\ \E n \in 0..MaxLinkRows : \E f \in [1..n -> LinkTripleSet] : rows = f
    /\ order = <<>>
    /\ score = <<>>
    /\ linked = <<>>
    /\ G = EmptyGraph
    /\ NoQuery
    /\ NoRun

\* milestone4_code.py 52-72; the embedder fixes the similarity of every pair
LinkDomainsM4 ==
    /\ fpc = "start"
    /\ order' = Sentences(rows)
    /\ \E sc \in [{PairSeq(Len(order'))[k] : k \in 1..Len(PairSeq(Len(order')))} -> Scores] :
          /\ score' = sc
          /\ linked' = link_domains_m4(order', sc)
    /\ fpc' = "m4"
    /\ UNCHANGED <<doc, relations, rows, G>>
    /\ UNCHANGED qaVars
    /\ UNCHANGED pipeVars

\* sample6.py 48-60; list(set(...)) hands the entities over in any order
LinkDomainsS6 ==
    /\ fpc = "start"
    /\ \E es \in [1..Cardinality(EntitySet(rows)) -> EntitySet(rows)] :
          /\ \A a, b \in DOMAIN es : a # b => es[a] # es[b]
          /\ order' = es
    /\ \E sc \in [{PairSeq(Len(order'))[k] : k \in 1..Len(PairSeq(Len(order')))} -> Scores] :
          /\ score' = sc
          /\ linked' = link_domains_s6(order', sc)
    /\ fpc' = "s6"
    /\ UNCHANGED <<doc, relations, rows, G>>
    /\ UNCHANGED qaVars
    /\ UNCHANGED pipeVars

NextLink == LinkDomainsM4 \/ LinkDomainsS6

SpecLink == InitLink /\ [][NextLink]_vars

(***************************************************************************)
(* Specification of the semantic search on its own                         *)
(***************************************************************************)
\* entity strings of the graph that is searched
NodeNames == <<"cat", "mouse", "Cats", "mice", "Dogs", "cats", "She", "him">>

InitSearch ==
    /\ fpc = "start"
    /\ doc = <<>>
    /\ relations = <<>>
    /\ rows = <<>>
    /\ order = <<>>
    /\ score = <<>>
    /\ linked = <<>>
    /\ query \in Queries
    /\ \E n \in 0..MaxNodes :
          /\ all_nodes = SubSeq(NodeNames, 1, n)
          /\ cosine_scores \in [1..n -> SearchScores]
    /\ results = <<>>
    /\ message = ""
    /\ terms = <<>>
    /\ found = <<>>
    /\ answers = <<>>
    /\ G = EmptyGraph
    /\ NoRun

\* milestone4_code.py 147-157, sample6.py 159-171
SearchTopK ==
    /\ fpc = "start"
    /\ \E pressed \in BOOLEAN :
          IF pressed /\ query # ""
          THEN /\ results' = top_matches(all_nodes, cosine_scores)
               /\ message' = "top_matches"
               /\ fpc' = "topk"
          ELSE /\ UNCHANGED <<results, message>>
               /\ fpc' = "no_search"
    /\ UNCHANGED <<doc, relations, rows, order, score, linked, query, all_nodes,
                   cosine_scores, terms, found, answers, G>>
    /\ UNCHANGED pipeVars

\* sample6.py 371-394
SearchThreshold6 ==
    /\ fpc = "start"
    /\ \E pressed \in BOOLEAN :
          IF ~pressed
          THEN /\ UNCHANGED <<results, message>>
               /\ fpc' = "no_search"
          ELSE /\ fpc' = "threshold"
               /\ IF strip(query) # ""
                  THEN /\ results' = filtered(all_nodes, cosine_scores)
                       /\ message' = IF results' # <<>> THEN "linked_nodes"
                                     ELSE "warning:no_links"
                  ELSE /\ UNCHANGED results
                       /\ message' = "st.info"
    /\ UNCHANGED <<doc, relations, rows, order, score, linked, query, all_nodes,
                   cosine_scores, terms, found, answers, G>>
    /\ UNCHANGED pipeVars

NextSearch == SearchTopK \/ SearchThreshold6

SpecSearch == InitSearch /\ [][NextSearch]_vars

(***************************************************************************)
(* Specification of the query answering on its own                         *)
(***************************************************************************)
AnswerEntities == {"cat", "Cats", "mouse"}

AnswerTripleSet == AnswerEntities \X {"chased"} \X AnswerEntities

InitAnswer ==
    /\ fpc = "start"
    /\ doc = <<>>
    /\ relations = <<>>
    /\ \E n \in 0..MaxAnswerRows : \E f \in [1..n -> AnswerTripleSet] : rows = f
    /\ order = <<>>
    /\ score = <<>>
    /\ linked = <<>>
    /\ query \in Questions
    /\ all_nodes = <<>>
    /\ cosine_scores = <<>>
    /\ results = <<>>
    /\ message = ""
    /\ terms = <<>>
    /\ found = <<>>
    /\ answers = <<>>
    /\ G = EmptyGraph
    /\ NoRun

\* milestone4_code.py 165-185
GetAnswerM4 ==
    /\ fpc = "start"
    /\ \E pressed \in BOOLEAN :
          IF pressed /\ query # ""
          THEN /\ terms' = question_terms(query)
               /\ found' = found_rows(rows, terms')
               /\ answers' = possible_answers_m4(found')
               /\ message' = IF found' # <<>> THEN "possible_answers" ELSE "no_match"
               /\ fpc' = "answer_m4"
          ELSE /\ UNCHANGED <<terms, found, answers, message>>
               /\ fpc' = "no_answer"
    /\ UNCHANGED <<doc, relations, rows, order, score, linked, query, all_nodes,
                   cosine_scores, results, G>>
    /\ UNCHANGED pipeVars

\* sample6.py 179-194
GetAnswerS6 ==
    /\ fpc = "start"
    /\ \E pressed \in BOOLEAN :
          IF pressed /\ query # ""
          THEN /\ terms' = question_terms(query)
               /\ found' = found_rows(rows, terms')
               /\ answers' = possible_answers_s6(found')
               /\ message' = IF found' # <<>> THEN "possible_answers" ELSE "no_match"
               /\ fpc' = "answer_s6"
          ELSE /\ UNCHANGED <<terms, found, answers, message>>
               /\ fpc' = "no_answer"
    /\ UNCHANGED <<doc, relations, rows, order, score, linked, query, all_nodes,
                   cosine_scores, results, G>>
    /\ UNCHANGED pipeVars

NextAnswer == GetAnswerM4 \/ GetAnswerS6

SpecAnswer == InitAnswer /\ [][NextAnswer]_vars

(***************************************************************************)
(* Claims about extract_relations                                          *)
(***************************************************************************)
\* token i is a verb root with a subject-labelled dependent before it and an
\* object-labelled dependent after it
HasClause(d, i) ==
    /\ d[i].dep = "ROOT"
    /\ d[i].pos = "VERB"
    /\ \E j \in 1..(i - 1) : d[j].head = i /\ d[j].dep \in {"nsubj", "nsubjpass"}
    /\ \E j \in (i + 1)..Len(d) :
          d[j].head = i /\ d[j].dep \in {"dobj", "attr", "dative", "oprd"}

ClauseRoots(d) == {i \in 1..Len(d) : HasClause(d, i)}

\* C5: a sentence without a verb root that has both a subject on its left
\* and an object on its right yields the empty list
C5_NoClauseNoTriple ==
    (fpc = "done" /\ ClauseRoots(doc) = {}) => relations = <<>>

\* a verb root with a subject but no object was scanned and nothing came out
C5_Witness ==
    /\ fpc = "done"
    /\ ClauseRoots(doc) = {}
    /\ \E i \in 1..Len(doc) :
          /\ doc[i].dep = "ROOT" /\ doc[i].pos = "VERB"
          /\ \E j \in 1..(i - 1) : doc[j].head = i /\ doc[j].dep = "nsubj"
    /\ relations = <<>>

FirstSubject(d, i) ==
    CHOOSE j \in 1..(i - 1) :
        /\ d[j].head = i /\ d[j].dep \in {"nsubj", "nsubjpass"}
        /\ \A k \in 1..(j - 1) :
              ~(d[k].head = i /\ d[k].dep \in {"nsubj", "nsubjpass"})

FirstObject(d, i) ==
    CHOOSE j \in (i + 1)..Len(d) :
        /\ d[j].head = i /\ d[j].dep \in {"dobj", "attr", "dative", "oprd"}
        /\ \A k \in (i + 1)..(j - 1) :
              ~(d[k].head = i /\ d[k].dep \in {"dobj", "attr", "dative", "oprd"})

\* the clause roots of d in token order
RootOrder(d) ==
    CHOOSE s \in [1..Cardinality(ClauseRoots(d)) -> ClauseRoots(d)] :
        \A a, b \in DOMAIN s : a < b => s[a] < s[b]

\* C6: one triple per clause root, in token order, made of the surface texts
\* of the first subject, the root and the first object; the cat sentence
\* yields exactly (cat, chased, mouse)
C6_OneTriplePerRoot ==
    fpc = "done" =>
        /\ Len(relations) = Cardinality(ClauseRoots(doc))
        /\ \A k \in 1..Len(relations) :
              LET i == RootOrder(doc)[k]
              IN  relations[k] = <<doc[FirstSubject(doc, i)].text, doc[i].text,
                                   doc[FirstObject(doc, i)].text>>
        /\ (doc = CatDoc => relations = << <<"cat", "chased", "mouse">> >>)

\* a root with two object-labelled right dependents gave its first one
C6_Witness ==
    /\ fpc = "done"
    /\ doc = GaveDoc
    /\ relations = << <<"She", "gave", "him">> >>

(***************************************************************************)
(* Claims about the graph assembly                                         *)
(***************************************************************************)
Assembled == fpc \in {"digraph", "edgelist"}

\* C1 (as claimed): the assembled graph has as many edges as there are input
\* triples
C1_EdgePerTriple == Assembled => number_of_edges(G) = Len(rows)

\* C2 (as claimed): every input triple (s, p, o) is an edge from s to o whose
\* label attribute is p
C2_EveryLabelKept ==
    fpc = "digraph" =>
        \A k \in 1..Len(rows) :
            /\ <<rows[k][1], rows[k][3]>> \in DOMAIN G.adj
            /\ G.adj[<<rows[k][1], rows[k][3]>>].label = rows[k][2]

\* C8: the node set is the union of the Entity1 and Entity2 strings, compared
\* as exact strings
C8_NodesAreEntities ==
    Assembled =>
        G.nodes = {rows[k][1] : k \in 1..Len(rows)}
                      \cup {rows[k][3] : k \in 1..Len(rows)}

\* an entity was added more than once and two entities differ only in case
C8_Witness ==
    /\ fpc = "digraph"
    /\ Len(rows) = 3
    /\ rows[1][1] = "cat" /\ rows[2][1] = "cat" /\ rows[3][3] = "Cat"
    /\ G.nodes = {"cat", "Cat", "mouse"}

(***************************************************************************)
(* Claims about the script run                                             *)
(***************************************************************************)
Shown(e) == \E k \in 1..Len(events) : events[k] = e

\* C3 (as claimed): when the uploaded table has no column "sentence", the run
\* shows the validation error and nothing else happens: no extraction, no
\* csv, no graph, no exception
C3_MissingColumnHalts ==
    (uploaded_file.present /\ uploaded_file.column # "sentence"
        /\ pc \notin {"load", "upload"})
    => /\ events = <<"st.error">>
       /\ exc = "none"
       /\ ~triples_df.defined
       /\ G = EmptyGraph

\* C4 (as claimed): with zero extracted triples no centrality and no
\* communities are computed, the finished run has reported the empty graph,
\* and nothing raised
C4_EmptyGraphGuard ==
    (triples_df.defined /\ triples_df.rows = <<>>)
    => /\ ~Shown("degree_centrality")
       /\ ~Shown("betweenness_centrality")
       /\ ~Shown("communities")
       /\ exc = "none"
       /\ (pc = "idle" /\ app # "semantic" => Shown("warning:empty"))

RECURSIVE Concatenation(_)
\* extract_relations of every non-missing cell, concatenated in row order
Concatenation(cells) ==
    IF cells = <<>> THEN <<>>
    ELSE (IF Head(cells) = NaN THEN <<>> ELSE extract_relations(nlp(Head(cells))))
         \o Concatenation(Tail(cells))

\* C7: once the table is saved, the triple list, the first three fields of
\* every row of triples_df and the rows of triples_output.csv are the
\* concatenation, in row order, of the triples of the non-missing sentences,
\* and the file has the fields Entity1, Relation, Entity2
C7_StoreIsConcatenation ==
    triples_df.defined =>
        LET expected == Concatenation(uploaded_file.cells)
        IN  /\ triples = expected
            /\ Len(triples_df.rows) = Len(expected)
            /\ \A k \in 1..Len(expected) :
                  SubSeq(triples_df.rows[k], 1, 3) = expected[k]
            /\ csv.written
            /\ csv.fields = <<"Entity1", "Relation", "Entity2">>
            /\ csv.rows = expected

\* a finished run over two rows with the same sentence kept both triples
C7_Witness ==
    /\ pc = "idle"
    /\ triples_df.defined
    /\ uploaded_file.cells = <<"The cat chased the mouse", "The cat chased the mouse">>
    /\ csv.rows = << <<"cat", "chased", "mouse">>, <<"cat", "chased", "mouse">> >>
    /\ Shown("render")

\* C9 (as claimed): whatever the script, the parser and the embedder are each
\* loaded at most once in the process
C9_LoadedOnce == parserLoads <= 1 /\ embedderLoads <= 1

(***************************************************************************)
(* Claims about link_domains                                               *)
(***************************************************************************)
\* C10 (as claimed): both implementations return exactly the candidate pairs
\* whose similarity is strictly above the threshold (the 10 best of them
\* where the cap applies), in descending order of similarity, and the empty
\* list for fewer than two candidates
C10_LinksAboveSortedDescending ==
    fpc \in {"m4", "s6"} =>
        LET above == {q \in DOMAIN score :
                         score[q] > (IF fpc = "m4" THEN 6000 ELSE 7500)}
        IN  /\ (Len(order) < 2 => linked = <<>>)
            /\ Len(linked) = (IF fpc = "m4" /\ Cardinality(above) > 10
                              THEN 10 ELSE Cardinality(above))
            /\ {<<linked[k][1], linked[k][2]>> : k \in 1..Len(linked)}
                   \subseteq {<<order[q[1]], order[q[2]]>> : q \in above}
            /\ \A a, b \in 1..Len(linked) : a < b => linked[a][3] >= linked[b][3]

(***************************************************************************)
(* Claims about the semantic search                                        *)
(***************************************************************************)
Descending(rs) == \A a, b \in 1..Len(rs) : a < b => rs[a][2] >= rs[b][2]

\* rs lists pairwise different nodes of all_nodes, each with its own score
FromNodes(rs) ==
    /\ \A a, b \in 1..Len(rs) : a # b => rs[a][1] # rs[b][1]
    /\ \A a \in 1..Len(rs) :
          \E k \in 1..Len(all_nodes) : rs[a] = <<all_nodes[k], cosine_scores[k]>>

\* the top-K result: min(5, nodes) entries, best first, nothing better left out
TopKRanked ==
    /\ Len(results) = (IF Len(all_nodes) < 5 THEN Len(all_nodes) ELSE 5)
    /\ FromNodes(results)
    /\ Descending(results)
    /\ \A k \in 1..Len(all_nodes) :
          (\A a \in 1..Len(results) : results[a][1] # all_nodes[k])
          => \A a \in 1..Len(results) : cosine_scores[k] <= results[a][2]

\* the threshold result: exactly the nodes above 0.30, best first, and the
\* no-match message when there is none
ThresholdExact ==
    /\ FromNodes(results)
    /\ Descending(results)
    /\ {results[a][1] : a \in 1..Len(results)}
          = {all_nodes[k] : k \in {j \in 1..Len(all_nodes) : cosine_scores[j] > 3000}}
    /\ (results = <<>> => message = "warning:no_links")
    /\ (results # <<>> => message = "linked_nodes")

\* C11 (as claimed): for a non-empty query the top-K search gives min(5, n)
\* nodes in descending order with nothing better left out, and the threshold
\* search gives exactly the nodes above 0.30, or the no-match message
C11_SearchRankedNonEmptyQuery ==
    /\ (fpc = "topk" /\ query # "" => TopKRanked)
    /\ (fpc = "threshold" /\ query # "" => ThresholdExact)

\* C11 (amended): the same, where the threshold search is given a query that
\* is not blank (query.strip() is not empty)
C11_SearchRanked ==
    /\ (fpc = "topk" /\ query # "" => TopKRanked)
    /\ (fpc = "threshold" /\ strip(query) # "" => ThresholdExact)

\* six nodes were searched: five came back, the last of them below 0.30
C11_Witness ==
    /\ fpc = "topk"
    /\ Len(all_nodes) = 6
    /\ Len(results) = 5
    /\ results[1][2] = 9000
    /\ results[5][2] = 2996

(***************************************************************************)
(* Claims about the query answering                                        *)
(***************************************************************************)
\* the positions of the stored triples whose subject or object contains a
\* term, letter case apart
MatchingRows ==
    {k \in 1..Len(rows) :
        \E t \in 1..Len(terms) :
            \/ contains(lower(chars(terms[t])), lower(chars(rows[k][1])))
            \/ contains(lower(chars(terms[t])), lower(chars(rows[k][3])))}

\* C12 (as claimed): the selected triples are exactly the matching ones in
\* insertion order, every distinct sentence is displayed once, at its first
\* occurrence, and no match at all gives the no-match message
C12_AnswersMatchOnce ==
    fpc \in {"answer_m4", "answer_s6"} =>
        /\ Len(found) = Cardinality(MatchingRows)
        /\ \E pos \in [1..Len(found) -> MatchingRows] :
              /\ \A a, b \in 1..Len(found) : a < b => pos[a] < pos[b]
              /\ \A a \in 1..Len(found) : found[a] = rows[pos[a]]
        /\ \A a, b \in 1..Len(answers) : a # b => answers[a] # answers[b]
        /\ {answers[a] : a \in 1..Len(answers)}
              = {Sentence(found[k]) : k \in 1..Len(found)}
        /\ (MatchingRows = {} => message = "no_match")


\* C13 (as claimed): when the community detection or the centrality
\* computation has raised on a graph with nodes, a warning was shown in its
\* place, nothing propagated, the run went on to the steps after the
\* analytics, and the finished run has drawn the graph
C13_AnalyticsFailureContinues ==
    (Shown("raise:community") \/ Shown("raise:centrality"))
    => /\ Shown("warning:community_skipped")
       /\ exc = "none"
       /\ (app = "sample6_app2" => pc \in {"links", "visualize"} \/ Shown("render"))
       /\ (pc = "idle" => Shown("render"))


Embedding == {"encode"}

AnalyticsComputation ==
    {"degree_centrality", "betweenness_centrality", "communities",
     "raise:centrality", "raise:community"}

\* by position k of the run's events the extraction pass has finished
ExtractedBefore(k) == \E i \in 1..(k - 1) : events[i] = "extract"

\* C14 (as claimed): in a run, no embedding and no analytics computation
\* happens before the extraction pass has finished, and no analytics
\* computation happens before an embedding computation
C14_ExtractEmbedAnalyse ==
    /\ \A k \in 1..Len(events) :
          events[k] \in Embedding \cup AnalyticsComputation => ExtractedBefore(k)
    /\ \A i, j \in 1..Len(events) :
          i < j => ~(events[i] \in AnalyticsComputation /\ events[j] \in Embedding)

\* C14 (amended): in a run, no embedding and no analytics computation happens
\* before the extraction pass has finished; in milestone4_code.py and the
\* first app of sample6.py no analytics computation happens before an
\* embedding computation; in the second app of sample6.py no embedding
\* computation happens before an analytics computation
C14_StepOrder ==
    /\ \A k \in 1..Len(events) :
          events[k] \in Embedding \cup AnalyticsComputation => ExtractedBefore(k)
    /\ \A i, j \in 1..Len(events) :
          i < j =>
             /\ app \in SearchApps
                  => ~(events[i] \in AnalyticsComputation /\ events[j] \in Embedding)
             /\ app = "sample6_app2"
                  => ~(events[i] \in Embedding /\ events[j] \in AnalyticsComputation)

C14_Witness ==
    /\ app = "sample6_app2"
    /\ pc = "idle"
    /\ \E i, j \in 1..Len(events) :
          i < j /\ events[i] = "communities" /\ events[j] = "encode"


\* C15 (as claimed): once the triples table exists it keeps exactly the columns
\* Entity1, Relation, Entity2 and the extracted rows in their order through
\* semantic search, query answering and link_domains, and a graph drawn in
\* the run is assembled from the exported triples
C15_TripleStoreUnchanged ==
    triples_df.defined
    => /\ triples_df.columns = <<"Entity1", "Relation", "Entity2">>
       /\ triples_df.rows = triples
       /\ (Shown("render") => G = AssembleGraph(csv.rows))

====
